---- MODULE Spec2Model ----
(***************************************************************************)
(* A model of package treeprint (src/treeprint.go): the Node tree, its     *)
(* construction and lookup operations, and the renderer Node.Bytes.        *)
(*                                                                         *)
(* Nodes live in a heap, a sequence of Node records addressed by index;    *)
(* a *Node is an index and the nil pointer is NIL.  Text (a Go string or   *)
(* the bytes written to an io.Writer) is a sequence of one-character       *)
(* strings, so that splitting, joining and prefixing are computed and not  *)
(* assumed.  An interface{} value is NilIface or Str(text).                *)
(***************************************************************************)
EXTENDS Integers, Sequences, FiniteSets, TLC

VARIABLES
    heap,   \* the allocated Nodes: heap[1] is the node New/NewWithRoot returned
    call,   \* the last call made on the tree: its name, receiver and print config
    ret,    \* the Tree that call returned (a node, or NIL)
    out     \* what the last Bytes call produced

vars == <<heap, call, ret, out>>

\* The model holds at most MaxNodes nodes.
MaxNodes == 4

\* var IndentSize = 3
IndentSize == 3

NIL == 0

----------------------------------------------------------------------------
(* Text and interface{} values                                             *)

NilIface == <<>>
Str(s) == <<s>>

\* The box-drawing runes of the edge types are written in ASCII: "|" is the
\* vertical link, "+" the tee of the mid edge, "L" the corner of the end edge
\* and "-" the horizontal bar.
EdgeTypeLink == <<"|">>
EdgeTypeMid == <<"+", "-", "-">>
EdgeTypeEnd == <<"L", "-", "-">>

\* strings.Repeat(" ", k)
Spaces(k) == [i \in 1..k |-> " "]

RECURSIVE Join(_, _)
\* strings.Join(parts, sep)
Join(parts, sep) ==
    IF Len(parts) = 0 THEN <<>>
    ELSE IF Len(parts) = 1 THEN parts[1]
    ELSE parts[1] \o sep \o Join(Tail(parts), sep)

RECURSIVE SplitFrom(_, _, _)
SplitFrom(s, i, cur) ==
    IF i > Len(s) THEN <<cur>>
    ELSE IF s[i] = "\n" THEN <<cur>> \o SplitFrom(s, i + 1, <<>>)
    ELSE SplitFrom(s, i + 1, Append(cur, s[i]))

\* strings.Split(s, "\n")
Split(s) == SplitFrom(s, 1, <<>>)

\* fmt's %v verb on an interface{} holding a string, or nil
FmtV(x) == IF x = NilIface THEN <<"<", "n", "i", "l", ">">> ELSE x[1]

\* reflect.DeepEqual on the values of the model
DeepEqual(x, y) == x = y

----------------------------------------------------------------------------
(* PrintFunc                                                               *)

\* A caller-supplied PrintValueFunc: writes the value in angle brackets.
CustomValueFunc(v) == <<"<">> \o FmtV(v) \o <<">">>

\* A caller-supplied PrintMetaFunc: writes the meta in braces.
CustomMetaFunc(m) == <<"{">> \o FmtV(m) \o <<"}">>

DefaultPrintMeta(m) == <<"[">> \o FmtV(m) \o <<"]">>

DefaultPrintValue(v) == FmtV(v)

\* PrintFunc{}: both functions nil
DefaultPrintFunc == [MetaFunc |-> "nil", ValueFunc |-> "nil"]

PrintFuncs == [MetaFunc : {"nil", "custom"}, ValueFunc : {"nil", "custom"}]

printMeta(p, m) ==
    (IF p.MetaFunc # "nil" THEN CustomMetaFunc(m) ELSE DefaultPrintMeta(m))
        \o <<" ", " ">>

printValue(p, v) ==
    IF p.ValueFunc # "nil" THEN CustomValueFunc(v) ELSE DefaultPrintValue(v)

printNode(p, node) ==
    (IF node.Meta # NilIface THEN printMeta(p, node.Meta) ELSE <<>>)
        \o printValue(p, node.Value)

----------------------------------------------------------------------------
(* Tree Model                                                              *)

\* &Node{Root: root, Meta: meta, Value: v}
NewNode(root, meta, v) ==
    [Root |-> root, Meta |-> meta, Value |-> v, Nodes |-> <<>>]

\* NewWithRoot(root)
NewWithRoot(v) == <<NewNode(NIL, NilIface, v)>>

\* the new node put in front of the children instead of behind them
AppendChildInFront(h, n, meta, v) ==
    [Append(h, NewNode(n, meta, v)) EXCEPT ![n].Nodes = <<Len(h) + 1>> \o @]

\* n.Nodes = append(n.Nodes, &Node{Root: n, Meta: meta, Value: v})
AppendChild(h, n, meta, v) ==
    [Append(h, NewNode(n, meta, v)) EXCEPT ![n].Nodes = Append(@, Len(h) + 1)]

\* Branch that leaves the back-reference in place
ClearRootNot(h, n) == h

\* n.Root = nil
ClearRoot(h, n) == [h EXCEPT ![n].Root = NIL]

FindLastNode(h, n) ==
    LET ns == h[n].Nodes
    IN  IF Len(ns) = 0 THEN NIL ELSE ns[Len(ns)]

\* FindByMeta that tests the children and never descends into them
FindByMetaChildrenOnly(h, n, meta, i) ==
    LET hits == {k \in i..Len(h[n].Nodes) : h[h[n].Nodes[k]].Meta = meta}
    IN  IF hits = {} THEN NIL
        ELSE h[n].Nodes[CHOOSE k \in hits : \A j \in hits : k <= j]

RECURSIVE FindByMetaFrom(_, _, _, _)
\* the loop of FindByMeta from the i-th child of n on
FindByMetaFrom(h, n, meta, i) ==
    IF i > Len(h[n].Nodes) THEN NIL
    ELSE LET node == h[n].Nodes[i]
         IN  IF DeepEqual(h[node].Meta, meta) THEN node
             ELSE LET v == FindByMetaFrom(h, node, meta, 1)
                  IN  IF v # NIL THEN v
                      ELSE FindByMetaFrom(h, n, meta, i + 1)

FindByMeta(h, n, meta) == FindByMetaFrom(h, n, meta, 1)

RECURSIVE FindByValueFrom(_, _, _, _)
\* the loop of FindByValue from the i-th child of n on
FindByValueFrom(h, n, value, i) ==
    IF i > Len(h[n].Nodes) THEN NIL
    ELSE LET node == h[n].Nodes[i]
         IN  IF DeepEqual(h[node].Value, value) THEN node
             ELSE LET v == FindByMeta(h, node, value)
                  IN  IF v # NIL THEN v
                      ELSE FindByValueFrom(h, n, value, i + 1)

FindByValue(h, n, value) == FindByValueFrom(h, n, value, 1)

----------------------------------------------------------------------------
(* Renderer                                                                *)

\* A render that panicked wrote nothing the caller gets.
Panicked == [panic |-> TRUE, chunks |-> <<>>]
NoOutput == [panic |-> FALSE, chunks |-> <<>>]

\* isEnded that looks at the last level appended only
isEndedLastOnly(levelsEnded, level) ==
    Len(levelsEnded) > 0 /\ levelsEnded[Len(levelsEnded)] = level

isEnded(levelsEnded, level) ==
    \E k \in 1..Len(levelsEnded) : levelsEnded[k] = level

isLast(h, n) == n = FindLastNode(h, h[n].Root)

\* padding with the two branches of its test swapped
PaddingLinkSwapped(h, node) ==
    IF isLast(h, node) THEN EdgeTypeLink \o Spaces(IndentSize)
    ELSE Spaces(IndentSize + 1)

\* the string padding stores in links[level] for node
PaddingLink(h, node) ==
    IF isLast(h, node) THEN Spaces(IndentSize + 1)
    ELSE EdgeTypeLink \o Spaces(IndentSize)

RECURSIVE paddingLoop(_, _, _, _)
\* the loop of padding; links[level] of the code is links[level + 1] here, and
\* an index below 0 is the runtime's index-out-of-range panic
paddingLoop(h, links, level, node) ==
    IF h[node].Root = NIL THEN [panic |-> FALSE, text |-> Join(links, <<>>)]
    ELSE IF level < 0 THEN [panic |-> TRUE, text |-> <<>>]
    ELSE paddingLoop(h, [links EXCEPT ![level + 1] = PaddingLink(h, node)],
                     level - 1, h[node].Root)

padding(h, level, node) ==
    paddingLoop(h, [i \in 1..(level + 1) |-> <<>>], level, node)

renderValue(h, p, level, node) ==
    LET lines == Split(printValue(p, h[node].Value))
    IN  IF Len(lines) < 2 THEN [panic |-> FALSE, val |-> h[node].Value]
        ELSE LET pad == padding(h, level, node)
             IN  IF pad.panic THEN [panic |-> TRUE, val |-> NilIface]
                 ELSE [panic |-> FALSE,
                       val |-> Str(Join([i \in 1..Len(lines) |->
                                   IF i = 1 THEN lines[i] ELSE pad.text \o lines[i]],
                                   <<"\n">>))]

\* the padding printValues writes before the edge
LinePrefix(level, levelsEnded) ==
    Join([i \in 1..level |->
            IF isEnded(levelsEnded, i - 1) THEN Spaces(IndentSize + 1)
            ELSE EdgeTypeLink \o Spaces(IndentSize)], <<>>)

printValues(h, p, level, levelsEnded, edge, node) ==
    LET val == renderValue(h, p, level, node)
        meta == h[node].Meta
    IN  IF val.panic THEN [panic |-> TRUE, text |-> <<>>]
        ELSE [panic |-> FALSE,
              text |-> LinePrefix(level, levelsEnded) \o edge \o <<" ">>
                       \o (IF meta # NilIface THEN printMeta(p, meta) ELSE <<>>)
                       \o FmtV(val.val) \o <<"\n">>]

\* What one printValues call (or the root's printNode) wrote, with the node,
\* level and levelsEnded it was called with.
Chunk(node, level, levelsEnded, text) ==
    [node |-> node, level |-> level, levelsEnded |-> levelsEnded, text |-> text]

\* the test i == len(nodes), which no index of the loop passes
IsLastIndexOffByOne(i, nodes) == i = Len(nodes) + 1

\* i == len(nodes)-1, for the 1-based index i
IsLastIndex(i, nodes) == i = Len(nodes)

RECURSIVE printNodesFrom(_, _, _, _, _, _)
\* the loop of printNodes from the i-th node on
printNodesFrom(h, p, level, levelsEnded, nodes, i) ==
    IF i > Len(nodes) THEN NoOutput
    ELSE
      LET node == nodes[i]
          le == IF IsLastIndex(i, nodes) THEN Append(levelsEnded, level)
                ELSE levelsEnded
          edge == IF IsLastIndex(i, nodes) THEN EdgeTypeEnd ELSE EdgeTypeMid
          pv == printValues(h, p, level, le, edge, node)
      IN  IF pv.panic THEN Panicked
          ELSE
            LET sub == IF Len(h[node].Nodes) > 0
                       THEN printNodesFrom(h, p, level + 1, le, h[node].Nodes, 1)
                       ELSE NoOutput
            IN  IF sub.panic THEN Panicked
                ELSE
                  LET rest == printNodesFrom(h, p, level, le, nodes, i + 1)
                  IN  IF rest.panic THEN Panicked
                      ELSE [panic |-> FALSE,
                            chunks |-> <<Chunk(node, level, le, pv.text)>>
                                       \o sub.chunks \o rest.chunks]

printNodes(h, p, level, levelsEnded, nodes) ==
    printNodesFrom(h, p, level, levelsEnded, nodes, 1)

\* the edge Bytes gives a receiver that has a parent
OwnEdge(h, n) == IF Len(h[n].Nodes) = 0 THEN EdgeTypeEnd ELSE EdgeTypeMid

\* the root's own line has level -1: it has no padding and no edge
RootLevel == 0 - 1

Bytes(h, f, n) ==
    LET level == 0
        levelsEnded == IF h[n].Root # NIL /\ Len(h[n].Nodes) = 0
                       THEN <<level>> ELSE <<>>
        own == IF h[n].Root = NIL
               THEN [panic |-> FALSE,
                     chunks |-> <<Chunk(n, RootLevel, <<>>,
                                        printNode(f, h[n]) \o <<"\n">>)>>]
               ELSE LET pv == printValues(h, f, 0, levelsEnded, OwnEdge(h, n), n)
                    IN  IF pv.panic THEN Panicked
                        ELSE [panic |-> FALSE,
                              chunks |-> <<Chunk(n, 0, levelsEnded, pv.text)>>]
    IN  IF own.panic THEN Panicked
        ELSE LET sub == IF Len(h[n].Nodes) > 0
                        THEN printNodes(h, f, level, levelsEnded, h[n].Nodes)
                        ELSE NoOutput
             IN  IF sub.panic THEN Panicked
                 ELSE [panic |-> FALSE, chunks |-> own.chunks \o sub.chunks]

\* buf.Bytes(): everything written, in order
BufBytes(o) == Join([i \in 1..Len(o.chunks) |-> o.chunks[i].text], <<>>)

----------------------------------------------------------------------------
(* Inputs                                                                  *)

SingleLine == Str(<<"a">>)
OtherLine == Str(<<"b">>)
MultiLine == Str(<<"a", "\n", "b">>)

Ids == 1..Len(heap)

----------------------------------------------------------------------------
(* Actions: one per method of Tree                                         *)

Call(op, n, arg) == [op |-> op, recv |-> n, arg |-> arg]

NoCall == Call("New", NIL, NilIface)

DoAddNode(n, v) ==
    /\ Len(heap) < MaxNodes
    /\ heap' = AppendChild(heap, n, NilIface, v)
    /\ call' = Call("AddNode", n, NilIface)
    /\ ret' = n
    /\ out' = NoOutput

DoAddMetaNode(n, meta, v) ==
    /\ Len(heap) < MaxNodes
    /\ heap' = AppendChild(heap, n, meta, v)
    /\ call' = Call("AddMetaNode", n, NilIface)
    /\ ret' = n
    /\ out' = NoOutput

DoAddBranch(n, v) ==
    /\ Len(heap) < MaxNodes
    /\ heap' = AppendChild(heap, n, NilIface, v)
    /\ call' = Call("AddBranch", n, NilIface)
    /\ ret' = Len(heap) + 1
    /\ out' = NoOutput

DoAddMetaBranch(n, meta, v) ==
    /\ Len(heap) < MaxNodes
    /\ heap' = AppendChild(heap, n, meta, v)
    /\ call' = Call("AddMetaBranch", n, NilIface)
    /\ ret' = Len(heap) + 1
    /\ out' = NoOutput

DoBranch(n) ==
    /\ heap' = ClearRoot(heap, n)
    /\ call' = Call("Branch", n, NilIface)
    /\ ret' = n
    /\ out' = NoOutput

DoSetValue(n, v) ==
    /\ heap' = [heap EXCEPT ![n].Value = v]
    /\ call' = Call("SetValue", n, NilIface)
    /\ ret' = NIL
    /\ out' = NoOutput

DoSetMetaValue(n, meta) ==
    /\ heap' = [heap EXCEPT ![n].Meta = meta]
    /\ call' = Call("SetMetaValue", n, NilIface)
    /\ ret' = NIL
    /\ out' = NoOutput

DoFindByMeta(n, meta) ==
    /\ call' = Call("FindByMeta", n, meta)
    /\ ret' = FindByMeta(heap, n, meta)
    /\ out' = NoOutput
    /\ UNCHANGED heap

DoFindByValue(n, value) ==
    /\ call' = Call("FindByValue", n, value)
    /\ ret' = FindByValue(heap, n, value)
    /\ out' = NoOutput
    /\ UNCHANGED heap

DoFindLastNode(n) ==
    /\ call' = Call("FindLastNode", n, NilIface)
    /\ ret' = FindLastNode(heap, n)
    /\ out' = NoOutput
    /\ UNCHANGED heap

\* Bytes(f); Print(f) is string(Bytes(f)) and String() is Bytes(PrintFunc{})
DoBytes(n, f) ==
    /\ call' = Call("Bytes", n, f)
    /\ ret' = NIL
    /\ out' = Bytes(heap, f, n)
    /\ UNCHANGED heap

----------------------------------------------------------------------------
(* Specifications                                                          *)

InitWith(values) ==
    /\ \E v \in values : heap = NewWithRoot(v)
    /\ call = NoCall
    /\ ret = 1
    /\ out = NoOutput

\* Each operation on any node of the tree, its arguments from the given sets.
AddNodeOf(values) == \E n \in Ids, v \in values : DoAddNode(n, v)
AddMetaNodeOf(metas, values) ==
    \E n \in Ids, m \in metas, v \in values : DoAddMetaNode(n, m, v)
AddBranchOf(values) == \E n \in Ids, v \in values : DoAddBranch(n, v)
AddMetaBranchOf(metas, values) ==
    \E n \in Ids, m \in metas, v \in values : DoAddMetaBranch(n, m, v)
BranchOfAny == \E n \in Ids : DoBranch(n)
SetValueOf(values) == \E n \in Ids, v \in values : DoSetValue(n, v)
SetMetaValueOf(metas) == \E n \in Ids, m \in metas : DoSetMetaValue(n, m)
FindByMetaOf(metas) == \E n \in Ids, m \in metas : DoFindByMeta(n, m)
FindByValueOf(values) == \E n \in Ids, v \in values : DoFindByValue(n, v)
FindLastNodeOfAny == \E n \in Ids : DoFindLastNode(n)
BytesOf(funcs) == \E n \in Ids, f \in funcs : DoBytes(n, f)

\* The renderer on trees without meta, printed with PrintFunc{} (String()).
RenderValues == {SingleLine, MultiLine}

InitRender == InitWith(RenderValues)

NextRender ==
    \/ AddNodeOf(RenderValues)
    \/ AddBranchOf(RenderValues)
    \/ SetValueOf(RenderValues)
    \/ BranchOfAny
    \/ BytesOf({DefaultPrintFunc})

SpecRender == InitRender /\ [][NextRender]_vars

\* The Tree Model: every operation that builds or changes the tree.
TreeValues == {SingleLine}
TreeMetas == {SingleLine}

Init == InitWith(TreeValues)

Next ==
    \/ AddNodeOf(TreeValues)
    \/ AddMetaNodeOf(TreeMetas, TreeValues)
    \/ AddBranchOf(TreeValues)
    \/ AddMetaBranchOf(TreeMetas, TreeValues)
    \/ BranchOfAny
    \/ SetValueOf(TreeValues)
    \/ SetMetaValueOf(TreeMetas \cup {NilIface})
    \/ FindLastNodeOfAny

Spec == Init /\ [][Next]_vars

\* FindByMeta on trees whose nodes differ in their meta only.
FindMetas == {SingleLine, OtherLine}

NextFind ==
    \/ AddNodeOf(TreeValues)
    \/ AddMetaNodeOf(FindMetas, TreeValues)
    \/ AddBranchOf(TreeValues)
    \/ AddMetaBranchOf(FindMetas, TreeValues)
    \/ SetMetaValueOf(FindMetas \cup {NilIface})
    \/ FindByMetaOf(FindMetas \cup {NilIface})

SpecFind == Init /\ [][NextFind]_vars

\* FindByValue on trees whose nodes differ in value and in meta.
FindValues == {SingleLine, OtherLine}

InitFindValue == InitWith(FindValues)

NextFindValue ==
    \/ AddNodeOf(FindValues)
    \/ AddMetaNodeOf(TreeMetas, FindValues)
    \/ AddBranchOf(FindValues)
    \/ AddMetaBranchOf(TreeMetas, FindValues)
    \/ FindByValueOf(FindValues)

SpecFindValue == InitFindValue /\ [][NextFindValue]_vars

\* The renderer on trees with meta, printed with every PrintFunc.
NextFormat ==
    \/ AddNodeOf(RenderValues)
    \/ AddMetaNodeOf(TreeMetas, RenderValues)
    \/ AddBranchOf(RenderValues)
    \/ AddMetaBranchOf(TreeMetas, RenderValues)
    \/ BytesOf(PrintFuncs)

SpecFormat == InitRender /\ [][NextFormat]_vars

----------------------------------------------------------------------------
(* The tree as the claims speak of it: parents and children by the         *)
(* children lists, whatever the Root back-references say                   *)

\* the node whose children list holds m, NIL for a node no list holds
ParentOf(h, m) ==
    IF \E q \in DOMAIN h : \E k \in 1..Len(h[q].Nodes) : h[q].Nodes[k] = m
    THEN CHOOSE q \in DOMAIN h : \E k \in 1..Len(h[q].Nodes) : h[q].Nodes[k] = m
    ELSE NIL

IsLastChild(h, m) ==
    /\ ParentOf(h, m) # NIL
    /\ h[ParentOf(h, m)].Nodes[Len(h[ParentOf(h, m)].Nodes)] = m

RECURSIVE PreOrderOf(_, _, _)
\* the nodes below n in depth-first pre-order, from the i-th child of n on
PreOrderOf(h, n, i) ==
    IF i > Len(h[n].Nodes) THEN <<>>
    ELSE <<h[n].Nodes[i]>> \o PreOrderOf(h, h[n].Nodes[i], 1) \o PreOrderOf(h, n, i + 1)

\* the proper descendants of n, in pre-order
Descendants(h, n) == PreOrderOf(h, n, 1)

InSeq(x, s) == \E k \in 1..Len(s) : s[k] = x

RECURSIVE PathFrom(_, _, _)
\* the chain from the child of r that leads to m down to m itself: its i-th
\* element is the node of the chain at indentation level i - 1
PathFrom(h, r, m) ==
    IF m = r THEN <<>> ELSE Append(PathFrom(h, r, ParentOf(h, m)), m)

\* the padding segment of the column owned by node a
ExpectedSegment(h, a) ==
    IF IsLastChild(h, a) THEN Spaces(IndentSize + 1)
    ELSE EdgeTypeLink \o Spaces(IndentSize)

\* the first k segments along a chain
ExpectedPad(h, path, k) ==
    Join([i \in 1..k |-> ExpectedSegment(h, path[i])], <<>>)

StartsWith(s, prefix) ==
    /\ Len(s) >= Len(prefix)
    /\ SubSeq(s, 1, Len(prefix)) = prefix

\* s without its first k elements
Drop(s, k) == SubSeq(s, k + 1, Len(s))

\* the lines of a chunk, without the line break that ends it
ChunkLines(c) == Split(SubSeq(c.text, 1, Len(c.text) - 1))

\* the last call was Bytes on a node without parent and it returned
RootRendered ==
    /\ call.op = "Bytes"
    /\ heap[call.recv].Root = NIL

ExpectedEdge(h, m) == IF IsLastChild(h, m) THEN EdgeTypeEnd ELSE EdgeTypeMid

----------------------------------------------------------------------------
(* Claims on the renderer, checked under SpecRender                        *)

\* C1: a render from a node without parent returns one chunk of lines per
\* node, the receiver first and its descendants in pre-order, and the line of
\* every descendant carries, right after its padding, the end edge if the node
\* is the last element of its parent's children list and the mid edge if not.
C1_Connectors ==
    RootRendered =>
        /\ ~out.panic
        /\ [i \in 1..Len(out.chunks) |-> out.chunks[i].node]
               = <<call.recv>> \o Descendants(heap, call.recv)
        /\ \A i \in 2..Len(out.chunks) :
              LET c == out.chunks[i]
                  d == Len(PathFrom(heap, call.recv, c.node)) - 1
              IN  StartsWith(Drop(c.text, d * (IndentSize + 1)),
                             ExpectedEdge(heap, c.node) \o <<" ">>)

\* C1 witness: a root was rendered that has two children or more, one of them
\* with children of its own.
C1_Witness ==
    /\ RootRendered
    /\ ~out.panic
    /\ Len(heap[call.recv].Nodes) >= 2
    /\ \E k \in 1..Len(heap[call.recv].Nodes) :
          Len(heap[heap[call.recv].Nodes[k]].Nodes) >= 1

\* C3 as claimed: every Bytes call returns.
C3_RenderTotal == call.op = "Bytes" => ~out.panic

ChainIntact(h, r, m) ==
    LET path == PathFrom(h, r, m)
    IN  \A k \in 1..Len(path) : h[path[k]].Root = ParentOf(h, path[k])

\* every line after the first of m's chunk is a line of m's value behind the
\* d+1 padding segments of the chain from r to m
ContinuationPadded(h, r, c) ==
    LET path == PathFrom(h, r, c.node)
        lines == ChunkLines(c)
        vlines == Split(FmtV(h[c.node].Value))
    IN  /\ Len(lines) = Len(vlines)
        /\ \A k \in 2..Len(lines) :
              lines[k] = ExpectedPad(h, path, Len(path)) \o vlines[k]

C10_OwnEdgeByPosition ==
    (call.op = "Bytes" /\ heap[call.recv].Root # NIL /\ ~out.panic) =>
        StartsWith(out.chunks[1].text, ExpectedEdge(heap, call.recv) \o <<" ">>)

\* the heap an independently built copy of n's subtree lives in: n and its
\* descendants and nothing else
Indep(h, n) ==
    [m \in {n} \cup {Descendants(h, n)[k] : k \in 1..Len(Descendants(h, n))} |-> h[m]]

\* n was detached by Branch: it is in a children list and has no back-reference
Promoted(h, n) == h[n].Root = NIL /\ ParentOf(h, n) # NIL

----------------------------------------------------------------------------
(* Claims on the Tree Model                                                *)

AddOps == {"AddNode", "AddMetaNode", "AddBranch", "AddMetaBranch"}

\* every children list holds nodes in the order they were created, each node
\* but the first is in exactly one list, and no list holds its own node
ChildrenInCallOrder(h) ==
    /\ \A n \in DOMAIN h : \A j, k \in 1..Len(h[n].Nodes) :
          j < k => h[n].Nodes[j] < h[n].Nodes[k]
    /\ \A m \in DOMAIN h : m # 1 =>
          Cardinality({n \in DOMAIN h : InSeq(m, h[n].Nodes)}) = 1
    /\ \A n \in DOMAIN h : ~InSeq(n, h[n].Nodes) /\ ~InSeq(1, h[n].Nodes)

\* C6 (under Spec): an append adds one new childless node at the end of the
\* receiver's children, its back-reference the receiver, and changes nothing
\* else; AddNode and AddMetaNode return the receiver, AddBranch and
\* AddMetaBranch the new node, so that an append chained on the result lands
\* under the same parent or under the new node; no other operation changes a
\* children list, and the lists stay in call order.
C6_Append ==
    [][ /\ call'.op \in AddOps =>
              LET n == call'.recv
                  new == Len(heap) + 1
              IN  /\ Len(heap') = new
                  /\ heap'[new].Nodes = <<>>
                  /\ heap'[new].Root = n
                  /\ heap'[n] = [heap[n] EXCEPT !.Nodes = Append(heap[n].Nodes, new)]
                  /\ \A m \in DOMAIN heap : m # n => heap'[m] = heap[m]
                  /\ call'.op \in {"AddNode", "AddBranch"} => heap'[new].Meta = NilIface
                  /\ call'.op \in {"AddNode", "AddMetaNode"} => ret' = n
                  /\ call'.op \in {"AddBranch", "AddMetaBranch"} => ret' = new
                  /\ (n = ret /\ call.op \in {"AddNode", "AddMetaNode"}) =>
                        ParentOf(heap', new) = call.recv
                  /\ (n = ret /\ call.op \in {"AddBranch", "AddMetaBranch"}) =>
                        ParentOf(heap', new) = Len(heap)
        /\ call'.op \notin AddOps =>
              /\ DOMAIN heap' = DOMAIN heap
              /\ \A m \in DOMAIN heap : heap'[m].Nodes = heap[m].Nodes
        /\ ChildrenInCallOrder(heap')
      ]_vars

\* C6 witness: a leaf was appended to a node that is not the first and had a
\* child already, in a tree where Branch has detached some node.
C6_Witness ==
    /\ call.op \in {"AddNode", "AddMetaNode"}
    /\ call.recv # 1
    /\ Len(heap[call.recv].Nodes) >= 2
    /\ \E m \in DOMAIN heap : Promoted(heap, m)

\* the position of the first element of s that satisfies Test, 0 if none does
FirstMatch(s, Test(_)) ==
    IF \E k \in 1..Len(s) : Test(s[k])
    THEN CHOOSE k \in 1..Len(s) : Test(s[k]) /\ \A j \in 1..(k - 1) : ~Test(s[j])
    ELSE 0

\* C5 (under SpecFind): FindByMeta returns the first proper descendant of the
\* receiver, in depth-first pre-order, whose meta equals the target, and nil
\* exactly if no descendant's meta equals it; it never returns the receiver.
C5_FindByMeta ==
    call.op = "FindByMeta" =>
        LET d == Descendants(heap, call.recv)
            HasMeta(m) == heap[m].Meta = call.arg
            first == FirstMatch(d, HasMeta)
        IN  /\ ret # call.recv
            /\ ret = NIL <=> first = 0
            /\ first # 0 => ret = d[first]

\* C5 witness: FindByMeta returned a node two levels below the receiver though
\* a child of the receiver, later in pre-order, has the target meta as well.
C5_Witness ==
    /\ call.op = "FindByMeta"
    /\ ret # NIL
    /\ ParentOf(heap, ret) # call.recv
    /\ \E k \in 1..Len(heap[call.recv].Nodes) :
          /\ heap[heap[call.recv].Nodes[k]].Meta = call.arg
          /\ heap[call.recv].Nodes[k] > ret

\* C4 as claimed (under SpecFindValue): FindByValue returns a descendant whose
\* value equals the target if there is one, and nil if there is none.
C4_FindByValue ==
    call.op = "FindByValue" =>
        LET d == Descendants(heap, call.recv)
            HasValue(m) == heap[m].Value = call.arg
        IN  /\ ret # NIL => InSeq(ret, d) /\ HasValue(ret)
            /\ ret = NIL <=> FirstMatch(d, HasValue) = 0

----------------------------------------------------------------------------
(* Claims on the formatters, checked under SpecFormat                      *)

EndsWith(s, suffix) ==
    /\ Len(s) >= Len(suffix)
    /\ SubSeq(s, Len(s) - Len(suffix) + 1, Len(s)) = suffix

\* C2 as claimed: the content of every node Bytes writes is the output of the
\* configured meta formatter and two spaces, if the node has a meta, and then
\* the output of the configured value formatter, line by line.
C2_ConfiguredFormatters ==
    (call.op = "Bytes" /\ ~out.panic) =>
        \A i \in 1..Len(out.chunks) :
            LET c == out.chunks[i]
                node == heap[c.node]
                lines == ChunkLines(c)
                vlines == Split(printValue(call.arg, node.Value))
                meta == IF node.Meta # NilIface THEN printMeta(call.arg, node.Meta)
                        ELSE <<>>
                before == IF c.level = RootLevel THEN 0
                          ELSE (c.level + 1) * (IndentSize + 1)
            IN  /\ Len(lines) = Len(vlines)
                /\ Drop(lines[1], before) = meta \o vlines[1]
                /\ \A k \in 2..Len(lines) : EndsWith(lines[k], vlines[k])

====
